---- MODULE Spec2Model ----
(***************************************************************************)
(* Model of aptos-move/framework/src/natives/cryptography/ristretto255.rs: *)
(* the MSM gas formula, the byte/scalar marshalling helpers and the table  *)
(* of natives built by make_all.                                           *)
(***************************************************************************)
EXTENDS Integers, Naturals, Sequences, FiniteSets, TLC

VARIABLES
    gas_params,   \* GasParameters (the fields the modelled code reads)
    pending,      \* MSM sizes whose cost is still to be computed
    msm,          \* last evaluation of multi_scalar_mul_gas
    prev_msm,     \* the evaluation before it
    arguments,    \* the argument stack of the running native (VecDeque<Value>)
    result,       \* what the last marshalling helper call returned
    testing,      \* the build has feature "testing"
    natives,      \* the table make_all returned
    enabled,      \* the enablement predicate of the gated operations
    call,         \* the last dispatched call and how it ended
    last_disabled \* the operation that last failed as feature-disabled

gasVars == <<gas_params, pending, msm, prev_msm>>
marshalVars == <<arguments, result>>
dispatchVars == <<testing, natives, enabled, call, last_disabled>>
vars == <<gasVars, marshalVars, dispatchVars>>

----------------------------------------------------------------------------
(* Bounds *)

MaxSize == 200       \* largest MSM size passed to multi_scalar_mul_gas
MaxUnitCost == 2     \* largest per-argument unit cost in GasParameters
MaxArgs == 2         \* deepest argument stack
NumGated == 3        \* operations whose enablement changes at run time

----------------------------------------------------------------------------
(* Exact arithmetic on naturals of arbitrary size: little-endian limbs in  *)
(* base LimbBase, no leading zero limb.  Used to evaluate n / log2(n)      *)
(* without floating point: c >= n / log2(n)  <=>  n^c >= 2^n.              *)

LimbBase == 10000

RECURSIVE MulSmallCarry(_, _, _)
MulSmallCarry(a, k, carry) ==
    IF a = <<>>
    THEN IF carry = 0 THEN <<>> ELSE <<carry>>
    ELSE LET t == Head(a) * k + carry
         IN  <<t % LimbBase>> \o MulSmallCarry(Tail(a), k, t \div LimbBase)

MulSmall(a, k) == MulSmallCarry(a, k, 0)

RECURSIVE GeqFrom(_, _, _)
GeqFrom(a, b, i) ==
    IF i = 0 THEN TRUE
    ELSE IF a[i] # b[i] THEN a[i] > b[i]
    ELSE GeqFrom(a, b, i - 1)

BigGeq(a, b) ==
    IF Len(a) # Len(b) THEN Len(a) > Len(b) ELSE GeqFrom(a, b, Len(a))

\* 2^e, built Pow2Step bits at a time to keep the recursion shallow
Pow2Step == 13

RECURSIVE BigPow2(_)
BigPow2(e) ==
    IF e <= Pow2Step THEN <<2 ^ e>>
    ELSE MulSmall(BigPow2(e - Pow2Step), 2 ^ Pow2Step)

\* least c >= from with acc * n^(c - from) >= target
RECURSIVE LeastExp(_, _, _, _)
LeastExp(n, c, acc, target) ==
    IF BigGeq(acc, target) THEN c
    ELSE LeastExp(n, c + 1, MulSmall(acc, n), target)

\* n^e for a small base n
RECURSIVE BigPow(_, _)
BigPow(n, e) == IF e = 0 THEN <<1>> ELSE MulSmall(BigPow(n, e - 1), n)

----------------------------------------------------------------------------
(* Cost model: GasParameters::multi_scalar_mul_gas                         *)

\* u64 quantities: sat marks the value u64::MAX (not representable here)
U64(v) == [sat |-> FALSE, val |-> v]
U64_MAX == [sat |-> TRUE, val |-> 0]

U64Leq(a, b) == b.sat \/ (~a.sat /\ a.val <= b.val)
U64Less(a, b) == ~a.sat /\ (b.sat \/ a.val < b.val)

\* f64::log2(size as f64): -inf at 0, +0.0 at 1, positive and finite above
Log2Class(size) ==
    IF size = 0 THEN "neg_inf" ELSE IF size = 1 THEN "zero" ELSE "pos_finite"

\* size as f64 / log2: 0.0 / -inf = -0.0, 1.0 / 0.0 = +inf
QuotientClass(size) ==
    IF size = 0 THEN "neg_zero" ELSE IF size = 1 THEN "pos_inf" ELSE "pos_finite"

\* ceil(n / floor(log2 n)): the logarithm truncated to an integer
RECURSIVE ILog2(_)
ILog2(n) == IF n < 2 THEN 0 ELSE 1 + ILog2(n \div 2)

CeilQuotientIntLog(n) == (n + ILog2(n) - 1) \div ILog2(n)

\* (n as f64 / f64::log2(n as f64)).ceil() for n >= 2:
\* the least c with c * log2(n) >= n, i.e. n^c >= 2^n
CeilQuotient(n) == LeastExp(n, 0, <<1>>, BigPow2(n))

CeilTable == [n \in 2..(MaxSize + 1) |-> CeilQuotient(n)]

\* (...).ceil() as u64: the cast saturates, +inf becomes u64::MAX, -0.0 becomes 0
NumArgsOf(size) ==
    IF QuotientClass(size) = "pos_inf" THEN U64_MAX
    ELSE IF QuotientClass(size) = "neg_zero" THEN U64(0)
    ELSE U64(CeilTable[size])

\* InternalGasPerArg * NumArgs (saturating u64 product)
GasMul(unit, n) ==
    IF unit = 0 THEN U64(0)
    ELSE IF n.sat THEN U64_MAX
    ELSE U64(unit * n.val)

\* the quotient truncated by the cast alone, without .ceil()
multi_scalar_mul_gas_trunc(params, size) ==
    LET n == NumArgsOf(size)
        t == IF n.sat \/ size < 2 \/ BigGeq(BigPow2(size), BigPow(size, n.val))
             THEN n ELSE U64(n.val - 1)
    IN  [called    |-> TRUE,
         size      |-> size,
         log2      |-> Log2Class(size),
         quotient  |-> QuotientClass(size),
         num_args  |-> t,
         gas       |-> GasMul(params.point_mul, t)]

multi_scalar_mul_gas(params, size) ==
    [called    |-> TRUE,
     size      |-> size,
     log2      |-> Log2Class(size),
     quotient  |-> QuotientClass(size),
     num_args  |-> NumArgsOf(size),
     gas       |-> GasMul(params.point_mul, NumArgsOf(size))]

NoMsm ==
    [called |-> FALSE, size |-> 0, log2 |-> "pos_finite",
     quotient |-> "pos_finite", num_args |-> U64(0), gas |-> U64(0)]

----------------------------------------------------------------------------
(* Value marshalling: pop_32_byte_slice, pop_64_byte_slice,                *)
(* pop_scalar_from_bytes, scalar_from_struct, scalar_from_valid_bytes      *)

SCALAR_NUM_BYTES == 32

\* the group order l = 2^252 + 27742317777372353535851937790883648493,
\* little-endian (curve25519-dalek BASEPOINT_ORDER)
BASEPOINT_ORDER ==
    <<237, 211, 245, 92, 26, 99, 18, 88, 214, 156, 247, 162, 222, 249, 222, 20,
      0, 0, 0, 0, 0, 0, 0, 0, 0, 0, 0, 0, 0, 0, 0, 16>>

\* a < b for little-endian byte strings of equal length
RECURSIVE LessFrom(_, _, _)
LessFrom(a, b, i) ==
    IF i = 0 THEN FALSE
    ELSE IF a[i] # b[i] THEN a[i] < b[i]
    ELSE LessFrom(a, b, i - 1)

LessLE(a, b) == LessFrom(a, b, Len(a))

\* a - b for little-endian byte strings of equal length, a >= b
RECURSIVE SubFrom(_, _, _, _)
SubFrom(a, b, i, borrow) ==
    IF i > Len(a) THEN <<>>
    ELSE LET d == a[i] - b[i] - borrow
         IN  <<d % 256>> \o SubFrom(a, b, i + 1, IF d < 0 THEN 1 ELSE 0)

SubLE(a, b) == SubFrom(a, b, 1, 0)

\* Scalar::reduce: the representative below the group order
RECURSIVE reduce(_)
reduce(s) == IF LessLE(s, BASEPOINT_ORDER) THEN s ELSE reduce(SubLE(s, BASEPOINT_ORDER))

\* Scalar::from_bits: clears the high bit of the last byte
from_bits(slice) == [slice EXCEPT ![SCALAR_NUM_BYTES] = @ % 128]

\* Scalar::is_canonical: *self == self.reduce()
is_canonical(s) == s = reduce(s)

\* Values the VM hands over
NoValue == [kind |-> "none", data |-> <<>>]
BytesValue(b) == [kind |-> "vector_u8", data |-> b]
StructValue(b) == [kind |-> "struct", data |-> b]    \* Scalar { data: vector<u8> }
U64Value == [kind |-> "u64", data |-> <<>>]

Zero31 == [i \in 1..31 |-> 0]
OrderLow31 == SubSeq(BASEPOINT_ORDER, 1, 31)
OrderLow31Minus1 == [OrderLow31 EXCEPT ![1] = 236]

\* 32-byte inputs around the group order l, without and with bit 255 set
Bytes32 ==
    { Zero31 \o <<0>>,               \* 0
      OrderLow31Minus1 \o <<16>>,    \* l - 1
      BASEPOINT_ORDER,               \* l
      Zero31 \o <<127>>,             \* 127 * 2^248
      Zero31 \o <<128>>,             \* 2^255
      OrderLow31Minus1 \o <<144>> }  \* l - 1 + 2^255

\* inputs of length 64 and of the lengths around 32 and 64
BytesOther ==
    { <<>>,
      SubSeq(BASEPOINT_ORDER, 1, 31),
      BASEPOINT_ORDER \o <<7>>,
      SubSeq(BASEPOINT_ORDER \o BASEPOINT_ORDER, 1, 63),
      BASEPOINT_ORDER \o OrderLow31Minus1 \o <<144>>,
      BASEPOINT_ORDER \o BASEPOINT_ORDER \o <<9>> }

StackValues == {BytesValue(b) : b \in Bytes32 \cup BytesOther} \cup {U64Value}

StructInputs ==
    {StructValue(b) : b \in Bytes32 \cup {SubSeq(BASEPOINT_ORDER, 1, 31)}}
        \cup {U64Value}

\* SafeNativeResult
Ok(v) == [status |-> "Ok", code |-> "NONE", out |-> v]
InvariantViolation(code) == [status |-> "InvariantViolation", code |-> code, out |-> <<>>]
Abort(code) == [status |-> "Abort", code |-> code, out |-> <<>>]

\* <[u8; n]>::try_from(Vec<u8>): the same bytes when the length is n
try_from_prefix(bytes, n) ==
    IF Len(bytes) >= n THEN [ok |-> TRUE, arr |-> SubSeq(bytes, 1, n)]
    ELSE [ok |-> FALSE, arr |-> <<>>]

try_from(bytes, n) ==
    IF Len(bytes) = n THEN [ok |-> TRUE, arr |-> bytes]
    ELSE [ok |-> FALSE, arr |-> <<>>]

\* safely_assert_eq!(left, right): the error returned when left # right
safely_assert_eq(left, right) ==
    IF left = right THEN [failed |-> FALSE, err |-> Ok(<<>>)]
    ELSE [failed |-> TRUE, err |-> Abort("ASSERTION_FAILED")]

\* safely_pop_arg!(arguments, T): removes the value pushed last
safely_pop_arg(args, kind) ==
    IF args = <<>>
    THEN [ok |-> FALSE, value |-> NoValue, rest |-> args]
    ELSE [ok    |-> args[Len(args)].kind = kind,
          value |-> args[Len(args)],
          rest  |-> SubSeq(args, 1, Len(args) - 1)]

WrongKind == InvariantViolation("UNSPECIFIED")

Converted(r, slice) == [status |-> r.status, code |-> r.code, out |-> r.out, slice |-> slice]

scalar_from_valid_bytes_one_error(bytes) ==
    LET t == try_from(bytes, SCALAR_NUM_BYTES) IN
    IF ~t.ok THEN Converted(InvariantViolation("INTERNAL_TYPE_ERROR"), <<>>)
    ELSE LET s == from_bits(t.arr) IN
         IF is_canonical(s) THEN Converted(Ok(s), t.arr)
         ELSE Converted(InvariantViolation("INTERNAL_TYPE_ERROR"), t.arr)

scalar_from_valid_bytes(bytes) ==
    LET t == try_from(bytes, SCALAR_NUM_BYTES) IN
    IF ~t.ok THEN Converted(InvariantViolation("INTERNAL_TYPE_ERROR"), <<>>)
    ELSE LET s == from_bits(t.arr)
             a == safely_assert_eq(is_canonical(s), TRUE)
         IN  IF a.failed THEN Converted(a.err, t.arr) ELSE Converted(Ok(s), t.arr)

\* scalar_from_valid_bytes on every input of the model, evaluated once
ScalarFromValidBytes == [b \in Bytes32 \cup BytesOther |-> scalar_from_valid_bytes(b)]

pop_byte_slice(args, n) ==
    LET p == safely_pop_arg(args, "vector_u8") IN
    IF ~p.ok THEN [rest |-> p.rest, value |-> p.value, res |-> Converted(WrongKind, <<>>)]
    ELSE LET t == try_from(p.value.data, n) IN
         [rest  |-> p.rest,
          value |-> p.value,
          res   |-> IF t.ok THEN Converted(Ok(t.arr), t.arr)
                    ELSE Converted(InvariantViolation("INTERNAL_TYPE_ERROR"), <<>>)]

pop_32_byte_slice_keep_on_error(args) ==
    LET r == pop_byte_slice(args, 32) IN
    IF r.res.status = "Ok" THEN r ELSE [r EXCEPT !.rest = args]

pop_32_byte_slice(args) == pop_byte_slice(args, 32)

pop_64_byte_slice(args) == pop_byte_slice(args, 64)

pop_scalar_from_bytes(args) ==
    LET p == safely_pop_arg(args, "vector_u8") IN
    [rest  |-> p.rest,
     value |-> p.value,
     res   |-> IF p.ok THEN ScalarFromValidBytes[p.value.data]
               ELSE Converted(WrongKind, <<>>)]

\* value_as::<StructRef>, the field at DATA_FIELD_INDEX, read_ref, value_as::<Vec<u8>>
scalar_from_struct(move_scalar) ==
    IF move_scalar.kind # "struct" THEN Converted(WrongKind, <<>>)
    ELSE ScalarFromValidBytes[move_scalar.data]

Returned(op, input, r) ==
    [tick   |-> 1 - result.tick,
     op     |-> op,
     input  |-> input,
     status |-> r.status,
     code   |-> r.code,
     slice  |-> r.slice,
     out    |-> r.out]

NoResult ==
    [tick |-> 0, op |-> "none", input |-> NoValue, status |-> "Ok",
     code |-> "NONE", slice |-> <<>>, out |-> <<>>]

----------------------------------------------------------------------------
(* Registry: make_all, and the dispatch of a call by name                  *)

Native(name, wrapper, handler) == [name |-> name, wrapper |-> wrapper, handler |-> handler]

Safe(name, handler) == Native(name, "make_safe_native", handler)

TestOnlyNatives ==
    <<Native("random_scalar_internal", "make_test_only_safe_native",
             "ristretto255_scalar::native_scalar_random")>>

CommonNatives ==
    << Safe("point_is_canonical_internal", "ristretto255_point::native_point_is_canonical"),
       Safe("point_identity_internal", "ristretto255_point::native_point_identity"),
       Safe("point_decompress_internal", "ristretto255_point::native_point_decompress"),
       Safe("point_clone_internal", "ristretto255_point::native_point_clone"),
       Safe("point_compress_internal", "ristretto255_point::native_point_compress"),
       Safe("point_mul_internal", "ristretto255_point::native_point_mul"),
       Safe("point_double_mul_internal", "ristretto255_point::native_double_scalar_mul"),
       Safe("point_equals", "ristretto255_point::native_point_equals"),
       Safe("point_neg_internal", "ristretto255_point::native_point_neg"),
       Safe("point_add_internal", "ristretto255_point::native_point_add"),
       Safe("point_sub_internal", "ristretto255_point::native_point_sub"),
       Safe("basepoint_mul_internal", "ristretto255_point::native_basepoint_mul"),
       Safe("basepoint_double_mul_internal", "ristretto255_point::native_basepoint_double_mul"),
       Safe("new_point_from_sha512_internal", "ristretto255_point::native_new_point_from_sha512"),
       Safe("new_point_from_64_uniform_bytes_internal",
            "ristretto255_point::native_new_point_from_64_uniform_bytes"),
       Safe("double_scalar_mul_internal", "ristretto255_point::native_double_scalar_mul"),
       Safe("multi_scalar_mul_internal",
            "ristretto255_point::safe_native_multi_scalar_mul_no_floating_point"),
       Safe("scalar_is_canonical_internal", "ristretto255_scalar::native_scalar_is_canonical"),
       Safe("scalar_invert_internal", "ristretto255_scalar::native_scalar_invert"),
       Safe("scalar_from_sha512_internal", "ristretto255_scalar::native_scalar_from_sha512"),
       Safe("scalar_mul_internal", "ristretto255_scalar::native_scalar_mul"),
       Safe("scalar_add_internal", "ristretto255_scalar::native_scalar_add"),
       Safe("scalar_sub_internal", "ristretto255_scalar::native_scalar_sub"),
       Safe("scalar_neg_internal", "ristretto255_scalar::native_scalar_neg"),
       Safe("scalar_from_u64_internal", "ristretto255_scalar::native_scalar_from_u64"),
       Safe("scalar_from_u128_internal", "ristretto255_scalar::native_scalar_from_u128"),
       Safe("scalar_reduced_from_32_bytes_internal",
            "ristretto255_scalar::native_scalar_reduced_from_32_bytes"),
       Safe("scalar_uniform_from_64_bytes_internal",
            "ristretto255_scalar::native_scalar_uniform_from_64_bytes") >>

\* the test-only entry appended whatever the build
make_all_unconditional(has_testing) == TestOnlyNatives \o CommonNatives

\* the alias registered a second time under the older name
make_all_alias_twice(has_testing) ==
    LET t == (IF has_testing THEN TestOnlyNatives ELSE <<>>) \o CommonNatives
    IN  [i \in 1..Len(t) |->
            IF t[i].name = "double_scalar_mul_internal"
            THEN Safe("point_double_mul_internal", t[i].handler) ELSE t[i]]

\* the vector handed to make_module_natives, in registration order
make_all(has_testing) ==
    (IF has_testing THEN TestOnlyNatives ELSE <<>>) \o CommonNatives

Names(table) == {table[i].name : i \in 1..Len(table)}

\* the entry a name resolves to: the first one registered under it
RECURSIVE ResolveFrom(_, _, _)
ResolveFrom(table, name, i) ==
    IF table[i].name = name THEN table[i] ELSE ResolveFrom(table, name, i + 1)

Resolve(table, name) == ResolveFrom(table, name, 1)

\* names a caller may ask for: every registered one and one that never is
DispatchNames == Names(make_all(TRUE)) \cup {"not_a_native"}

\* the operations whose enablement predicate changes in the model
GateOrder ==
    << "point_double_mul_internal", "double_scalar_mul_internal",
       "random_scalar_internal", "multi_scalar_mul_internal",
       "scalar_invert_internal" >>

GatedNames == {GateOrder[i] : i \in 1..NumGated}

IsEnabled(en, name) == IF name \in DOMAIN en THEN en[name] ELSE TRUE

Ended(name, nargs, outcome, handler, marshalled) ==
    [name |-> name, args |-> nargs, outcome |-> outcome, handler |-> handler,
     marshalled |-> marshalled]

\* the arguments are marshalled before the enablement predicate is read
dispatch_marshal_first(table, en, name, nargs) ==
    IF \A i \in 1..Len(table) : table[i].name # name
    THEN Ended(name, nargs, "unknown_operation", "none", 0)
    ELSE IF ~IsEnabled(en, name)
    THEN Ended(name, nargs, "feature_disabled", "none", nargs)
    ELSE Ended(name, nargs, "handler", Resolve(table, name).handler, nargs)

\* look up the name, check the enablement predicate, marshal, run the handler
dispatch(table, en, name, nargs) ==
    IF \A i \in 1..Len(table) : table[i].name # name
    THEN Ended(name, nargs, "unknown_operation", "none", 0)
    ELSE IF ~IsEnabled(en, name)
    THEN Ended(name, nargs, "feature_disabled", "none", 0)
    ELSE Ended(name, nargs, "handler", Resolve(table, name).handler, nargs)

NoCall ==
    [name |-> "none", args |-> 0, outcome |-> "none", handler |-> "none",
     marshalled |-> 0]

----------------------------------------------------------------------------
(* Specifications *)

\* the cost of the next pending MSM size is computed
MsmGas ==
    /\ pending # <<>>
    /\ prev_msm' = msm
    /\ msm' = multi_scalar_mul_gas(gas_params, Head(pending))
    /\ pending' = Tail(pending)
    /\ UNCHANGED <<gas_params, marshalVars, dispatchVars>>

\* the VM pushes an argument
Push(v) ==
    /\ Len(arguments) < MaxArgs
    /\ arguments' = Append(arguments, v)
    /\ UNCHANGED <<result, gasVars, dispatchVars>>

Pop32 ==
    LET r == pop_32_byte_slice(arguments) IN
    /\ arguments' = r.rest
    /\ result' = Returned("pop_32_byte_slice", r.value, r.res)
    /\ UNCHANGED <<gasVars, dispatchVars>>

Pop64 ==
    LET r == pop_64_byte_slice(arguments) IN
    /\ arguments' = r.rest
    /\ result' = Returned("pop_64_byte_slice", r.value, r.res)
    /\ UNCHANGED <<gasVars, dispatchVars>>

PopScalarFromBytes ==
    LET r == pop_scalar_from_bytes(arguments) IN
    /\ arguments' = r.rest
    /\ result' = Returned("pop_scalar_from_bytes", r.value, r.res)
    /\ UNCHANGED <<gasVars, dispatchVars>>

ScalarFromStruct(v) ==
    /\ result' = Returned("scalar_from_struct", v, scalar_from_struct(v))
    /\ UNCHANGED <<arguments, gasVars, dispatchVars>>

\* the feature configuration changes the enablement of one operation
SetEnabled(name, on) ==
    /\ enabled[name] # on
    /\ enabled' = [enabled EXCEPT ![name] = on]
    /\ UNCHANGED <<testing, natives, call, last_disabled, gasVars, marshalVars>>

\* the VM calls a native by name with nargs arguments on the stack
\* (an empty stack or a full one)
Dispatch(name, nargs) ==
    /\ call' = dispatch(natives, enabled, name, nargs)
    /\ last_disabled' = IF call'.outcome = "feature_disabled"
                        THEN name ELSE last_disabled
    /\ UNCHANGED <<testing, natives, enabled, gasVars, marshalVars>>

InitGas ==
    /\ gas_params \in [point_mul : 0..MaxUnitCost, point_add : 1..MaxUnitCost]
    /\ pending \in [1..2 -> 0..MaxSize]
    /\ msm = NoMsm
    /\ prev_msm = NoMsm
    /\ arguments = <<>>
    /\ result = NoResult
    /\ testing = FALSE
    /\ natives = <<>>              \* make_all has not been called
    /\ enabled = [n \in GatedNames |-> TRUE]
    /\ call = NoCall
    /\ last_disabled = "none"

InitMarshal ==
    /\ gas_params = [point_mul |-> 1, point_add |-> 1]
    /\ pending = <<>>
    /\ msm = NoMsm
    /\ prev_msm = NoMsm
    /\ arguments = <<>>
    /\ result = NoResult
    /\ testing = FALSE
    /\ natives = <<>>              \* make_all has not been called
    /\ enabled = [n \in GatedNames |-> TRUE]
    /\ call = NoCall
    /\ last_disabled = "none"

InitDispatch ==
    /\ gas_params = [point_mul |-> 1, point_add |-> 1]
    /\ pending = <<>>
    /\ msm = NoMsm
    /\ prev_msm = NoMsm
    /\ arguments = <<>>
    /\ result = NoResult
    /\ testing \in BOOLEAN
    /\ natives = make_all(testing)
    /\ enabled = [n \in GatedNames |-> TRUE]
    /\ call = NoCall
    /\ last_disabled = "none"

NextGas == MsmGas

NextMarshal ==
    \/ \E v \in StackValues : Push(v)
    \/ Pop32
    \/ Pop64
    \/ PopScalarFromBytes
    \/ \E v \in StructInputs : ScalarFromStruct(v)

NextDispatch ==
    \/ \E name \in GatedNames, on \in BOOLEAN : SetEnabled(name, on)
    \/ \E name \in DispatchNames, nargs \in {0, MaxArgs} : Dispatch(name, nargs)

SpecGas == InitGas /\ [][NextGas]_vars

SpecMarshal == InitMarshal /\ [][NextMarshal]_vars

SpecDispatch == InitDispatch /\ [][NextDispatch]_vars

----------------------------------------------------------------------------
(* Properties of the cost model *)

\* c = ceil(n / log2 n): c * log2(n) >= n > (c - 1) * log2(n)
IsCeilOfQuotient(n, c) ==
    /\ c >= 1
    /\ BigGeq(BigPow(n, c), BigPow2(n))
    /\ ~BigGeq(BigPow(n, c - 1), BigPow2(n))

RefCeil == [n \in 2..(MaxSize + 1) |-> CHOOSE c \in 1..n : IsCeilOfQuotient(n, c)]

\* C4: for every size n >= 2 the charged MSM gas is point_mul * ceil(n / log2 n),
\* whatever the other gas parameters; at n = 4 it is exactly 2 * point_mul.
MsmGasIsUnitTimesCeil ==
    (msm.called /\ msm.size >= 2) =>
        /\ msm.gas = U64(gas_params.point_mul * RefCeil[msm.size])
        /\ (msm.size = 4 => msm.gas = U64(2 * gas_params.point_mul))

MsmGasAtFourWitness ==
    msm.called /\ msm.size = 4 /\ gas_params.point_mul = MaxUnitCost
        /\ msm.gas.val = 2 * MaxUnitCost

\* C5: with a positive point_mul the MSM gas never decreases from a size
\* m >= 2 to a size n >= m, and the gas at 200 is strictly above the gas at 10.
MsmGasMonotone ==
    (msm.called /\ prev_msm.called /\ gas_params.point_mul > 0
        /\ 2 <= prev_msm.size /\ prev_msm.size <= msm.size) =>
        /\ U64Leq(prev_msm.gas, msm.gas)
        /\ (prev_msm.size = 10 /\ msm.size = 200 => U64Less(prev_msm.gas, msm.gas))

MsmGasTenThenTwoHundred ==
    msm.called /\ prev_msm.called /\ gas_params.point_mul > 0
        /\ prev_msm.size = 10 /\ msm.size = 200

\* C9: at the degenerate sizes 0 and 1 multi_scalar_mul_gas does not divide by
\* a zero or non-finite logarithm and charges no quantity made from a
\* non-finite quotient.
MsmGasDegenerateIsGuarded ==
    (msm.called /\ msm.size <= 1) =>
        /\ msm.log2 = "pos_finite"
        /\ msm.quotient \in {"pos_finite", "neg_zero"}
        /\ ~msm.num_args.sat

----------------------------------------------------------------------------
(* Properties of the marshalling helpers *)

ScalarOps == {"pop_scalar_from_bytes", "scalar_from_struct"}
PopOps == {"pop_32_byte_slice", "pop_64_byte_slice", "pop_scalar_from_bytes"}

\* the bytes reached scalar_from_valid_bytes: a vector popped by
\* pop_scalar_from_bytes or the data field read by scalar_from_struct
ReachedScalarFromValidBytes ==
    \/ result.op = "pop_scalar_from_bytes" /\ result.input.kind = "vector_u8"
    \/ result.op = "scalar_from_struct" /\ result.input.kind = "struct"

\* b is the fully reduced encoding of a field element: b < l as an integer
IsCanonicalEncoding(b) == Len(b) = SCALAR_NUM_BYTES /\ LessLE(b, BASEPOINT_ORDER)

ExpectedLen(op) == IF op = "pop_64_byte_slice" THEN 64 ELSE 32

\* C1: scalar_from_valid_bytes returns a Scalar for a 32-byte input b only if
\* b itself is a canonical encoding; every non-canonical b is rejected.
ScalarOnlyFromCanonicalBytes ==
    (ReachedScalarFromValidBytes /\ Len(result.input.data) = SCALAR_NUM_BYTES) =>
        (result.status = "Ok" => IsCanonicalEncoding(result.input.data))

LengthDecidesArrayOrTypeError ==
    ((result.op \in PopOps /\ result.input.kind = "vector_u8")
        \/ (result.op = "scalar_from_struct" /\ result.input.kind = "struct")) =>
        IF Len(result.input.data) = ExpectedLen(result.op)
        THEN /\ result.slice = result.input.data
             /\ ~(result.status = "InvariantViolation" /\ result.code = "INTERNAL_TYPE_ERROR")
             /\ (result.op \in {"pop_32_byte_slice", "pop_64_byte_slice"}
                    => result.status = "Ok" /\ result.out = result.input.data)
        ELSE /\ result.status = "InvariantViolation"
             /\ result.code = "INTERNAL_TYPE_ERROR"
             /\ result.slice = <<>>
             /\ result.out = <<>>

TooLongRejectedWitness ==
    /\ result.op = "pop_32_byte_slice"
    /\ result.input.kind = "vector_u8"
    /\ Len(result.input.data) = 33
    /\ result.status = "InvariantViolation"

\* C10: a pop helper called on a non-empty stack removes exactly the value
\* pushed last and leaves the others as they were, whether it succeeds or fails.
PopRemovesOnlyLastPushed ==
    [][(result'.tick # result.tick /\ result'.op \in PopOps /\ arguments # <<>>)
        => /\ arguments' = SubSeq(arguments, 1, Len(arguments) - 1)
           /\ result'.input = arguments[Len(arguments)]]_vars

FailedPopLeftRestWitness ==
    /\ result.op = "pop_32_byte_slice"
    /\ result.status = "InvariantViolation"
    /\ result.input.kind = "vector_u8"
    /\ Len(arguments) = MaxArgs - 1
    /\ MaxArgs > 1

----------------------------------------------------------------------------
(* Properties of the registry *)

OutcomeOf(table, en, name) == dispatch(table, en, name, MaxArgs).outcome

\* C6: a call to a registered operation whose predicate is false fails as
\* feature-disabled with no argument marshalled; when the predicate is true
\* the call reaches its handler; changing one operation's enablement leaves
\* the outcome of a call to every other name as it was.
FeatureGating ==
    /\ [][call' # call =>
            (call'.name \in Names(natives) =>
                IF IsEnabled(enabled, call'.name)
                THEN call'.outcome = "handler" /\ call'.marshalled = call'.args
                ELSE call'.outcome = "feature_disabled" /\ call'.marshalled = 0)]_vars
    /\ [][enabled' # enabled =>
            \A n \in DispatchNames :
                IsEnabled(enabled', n) = IsEnabled(enabled, n) =>
                    OutcomeOf(natives', enabled', n) = OutcomeOf(natives, enabled, n)]_vars

ReenabledReachesHandler ==
    /\ call.name = last_disabled
    /\ call.outcome = "handler"
    /\ call.args = MaxArgs
    /\ call.marshalled = MaxArgs

\* C7: random_scalar_internal is registered exactly in a testing build; in a
\* production build nothing resolves to native_scalar_random and a call of that
\* name is an unknown operation; the other entries are the same in both builds.
TestOnlyEntryOnlyInTestingBuild ==
    /\ ("random_scalar_internal" \in Names(natives)) <=> testing
    /\ ~testing => \A i \in 1..Len(natives) :
                        natives[i].handler # "ristretto255_scalar::native_scalar_random"
    /\ (~testing /\ call.name = "random_scalar_internal")
            => call.outcome = "unknown_operation"
    /\ SelectSeq(natives, LAMBDA e : e.name # "random_scalar_internal") = CommonNatives

RandomUnknownInProduction ==
    /\ ~testing
    /\ call.name = "random_scalar_internal"
    /\ call.outcome = "unknown_operation"

\* C8: no name is registered twice in the table make_all built, and the table
\* never changes afterwards.
NamesUniqueAndTableFixed ==
    /\ [](\A i, j \in 1..Len(natives) : natives[i].name = natives[j].name => i = j)
    /\ [][natives' = natives]_vars

AliasResolvedWitness ==
    /\ testing
    /\ call.name = "double_scalar_mul_internal"
    /\ call.outcome = "handler"
    /\ call.handler = "ristretto255_point::native_double_scalar_mul"
====
